---------------------------- MODULE Spec2Model ----------------------------
(***************************************************************************)
(* A model of piano-midi-practice: the MIDI handler (connection, the      *)
(* poll/sleep listener), the prompt validator, the scale sequence         *)
(* validator and the note-name theory they use.                           *)
(*                                                                         *)
(* Time is measured in seconds since the entry of each running call: a    *)
(* call's clock starts at 0 where the code reads start_time = time.time() *)
(* and Tick advances every running clock by one second.  The listener's   *)
(* clock stops counting at its timeout and the sequence's one second past *)
(* its timeout: "time.time() - start_time >= timeout" is decided exactly  *)
(* and the sequence call knows when it is past its deadline.              *)
(*                                                                         *)
(* Optional values are sequences: None is <<>> and a value x is <<x>>.    *)
(***************************************************************************)
EXTENDS Integers, Sequences, FiniteSets, TLC

\* ------------------------------------------------------------------ bounds
\* The most messages the MIDI port buffers before the listener polls them.
MaxQueue == 2
\* The most key presses that wait in the port while a scale is played.
MaxPending == 1
\* The longest expected scale handed to _play_scale_sequence.
MaxLen == 3
\* The largest timeout (in seconds) a caller passes.
MaxTimeout == 2
\* Calls of close() on a handler between two connections.
MaxCloses == 2
\* The most interval prompts a round of scale_degree_practice begins.
MaxPrompts == 2

\* ------------------------------------------------------- program constants
\* listen_for_note(timeout=3.0) inside _play_scale_sequence.
PER_EVENT_TIMEOUT == 3
\* midi_num % 12
OCTAVE == 12
\* prompts_in_round = random.randint(5, 7)
PROMPTS_MIN == 5
PROMPTS_MAX == 7
\* sequence_timeout = timeout * 3
SEQUENCE_FACTOR == 3

None == <<>>
Some(x) == <<x>>

\* ------------------------------------------------------------ music theory
CHROMATIC_NOTES == <<"C", "C#", "D", "D#", "E", "F", "F#", "G", "G#", "A", "A#", "B">>
FLAT_NOTES == <<"C", "Db", "D", "Eb", "E", "F", "Gb", "G", "Ab", "A", "Bb", "B">>

ENHARMONIC_MAP_sharps_only ==
    [n \in {"C#", "D#", "F#", "G#", "A#"} |->
        CASE n = "C#" -> "Db" [] n = "D#" -> "Eb" [] n = "F#" -> "Gb"
          [] n = "G#" -> "Ab" [] n = "A#" -> "Bb"]

ENHARMONIC_MAP ==
    [n \in {"C#", "Db", "D#", "Eb", "F#", "Gb", "G#", "Ab", "A#", "Bb"} |->
        CASE n = "C#" -> "Db" [] n = "Db" -> "C#"
          [] n = "D#" -> "Eb" [] n = "Eb" -> "D#"
          [] n = "F#" -> "Gb" [] n = "Gb" -> "F#"
          [] n = "G#" -> "Ab" [] n = "Ab" -> "G#"
          [] n = "A#" -> "Bb" [] n = "Bb" -> "A#"]

midi_to_note_name(midi_num) == CHROMATIC_NOTES[(midi_num % OCTAVE) + 1]

\* list.index(x): the position (from 0) of the first element equal to x.
list_index(list, x) ==
    (CHOOSE i \in 1..Len(list) :
        list[i] = x /\ \A j \in 1..(i - 1) : list[j] # x) - 1

\* The names a list holds.
Names(list) == {list[i] : i \in 1..Len(list)}

note_name_to_index(note_name) ==
    IF note_name \in Names(CHROMATIC_NOTES)
    THEN Some(list_index(CHROMATIC_NOTES, note_name))
    ELSE IF note_name \in Names(FLAT_NOTES)
    THEN Some(list_index(FLAT_NOTES, note_name))
    ELSE None

notes_match_exact(note1, note2) == note1 = note2

notes_match(note1, note2) ==
    \/ note1 = note2
    \/ note1 \in DOMAIN ENHARMONIC_MAP /\ ENHARMONIC_MAP[note1] = note2

\* Scale degrees, in semitones from the root.
INTERVALS ==
    [i \in {"1", "b2", "2", "b3", "3", "4", "#4", "b5", "5", "#5", "b6", "6",
            "b7", "7"} |->
        CASE i = "1" -> 0 [] i = "b2" -> 1 [] i = "2" -> 2 [] i = "b3" -> 3
          [] i = "3" -> 4 [] i = "4" -> 5 [] i = "#4" -> 6 [] i = "b5" -> 6
          [] i = "5" -> 7 [] i = "#5" -> 8 [] i = "b6" -> 8 [] i = "6" -> 9
          [] i = "b7" -> 10 [] i = "7" -> 11]

\* The modes, as semitones from the root.
MODES ==
    [m \in {"Ionian", "Dorian", "Phrygian", "Lydian", "Mixolydian", "Aeolian",
            "Locrian"} |->
        CASE m = "Ionian" -> <<0, 2, 4, 5, 7, 9, 11, 12>>
          [] m = "Dorian" -> <<0, 2, 3, 5, 7, 9, 10, 12>>
          [] m = "Phrygian" -> <<0, 1, 3, 5, 7, 8, 10, 12>>
          [] m = "Lydian" -> <<0, 2, 4, 6, 7, 9, 11, 12>>
          [] m = "Mixolydian" -> <<0, 2, 4, 5, 7, 9, 10, 12>>
          [] m = "Aeolian" -> <<0, 2, 3, 5, 7, 8, 10, 12>>
          [] m = "Locrian" -> <<0, 1, 3, 5, 6, 8, 10, 12>>]

\* 'b' in root_note: the spellings of a note that hold the letter b.
HasFlatNever(name) == FALSE

HasFlat(name) == name \in {"Db", "Eb", "Gb", "Ab", "Bb", "Cb", "Fb"}

\* calculate_interval: the note name, or "ValueError" where the code raises.
calculate_interval(root, interval) ==
    IF interval \notin DOMAIN INTERVALS THEN "ValueError"
    ELSE IF note_name_to_index(root) = None THEN "ValueError"
    ELSE LET result_index ==
                 (note_name_to_index(root)[1] + INTERVALS[interval]) % OCTAVE
         IN  IF HasFlat(root) THEN FLAT_NOTES[result_index + 1]
                              ELSE CHROMATIC_NOTES[result_index + 1]

\* generate_scale: the list of names, or "ValueError" where the code raises.
generate_scale(root, mode) ==
    IF mode \notin DOMAIN MODES THEN "ValueError"
    ELSE IF note_name_to_index(root) = None THEN "ValueError"
    ELSE LET root_index == note_name_to_index(root)[1]
             intervals == MODES[mode]
         IN  [k \in 1..Len(intervals) |->
                 LET note_index == (root_index + intervals[k]) % OCTAVE
                 IN  IF HasFlat(root) THEN FLAT_NOTES[note_index + 1]
                                      ELSE CHROMATIC_NOTES[note_index + 1]]

\* scale_ascending[::-1]
Reversed(list) == [k \in 1..Len(list) |-> list[Len(list) + 1 - k]]

\* ------------------------------------------------------------------ inputs
\* The MIDI note numbers the keyboard sends: C4, D4 and C#5.
MidiNotes == {60, 62, 73}
\* The names expected scales are built from (Db is the flat spelling of C#).
ExpectedNames == {"C", "D", "Db"}

\* late and live are history marks, never read by the program: the message
\* arrived while a sequence call was already past its overall deadline; it
\* arrived while a sequence call was running.
NoteOn(n, v) ==
    [type |-> "note_on", note |-> n, velocity |-> v, late |-> FALSE,
     live |-> FALSE]
NoteOff(n) ==
    [type |-> "note_off", note |-> n, velocity |-> 0, late |-> FALSE,
     live |-> FALSE]
\* What the port can deliver: key presses, a release sent as note_on with
\* velocity 0, and a note_off.
Messages ==
    {NoteOn(n, 64) : n \in MidiNotes} \cup {NoteOn(60, 0), NoteOff(60)}

\* What a prompt can ask for and hear: also E, and the D# next to it.
PromptNames == ExpectedNames \cup {"E"}
PromptMessages == Messages \cup {NoteOn(63, 64)}

\* What the drills are run with: a root and key, two scale degrees, two
\* modes, and no timeout or a timeout of one second.
DrillRoots == {"C"}
DrillIntervals == {"2", "3"}
DrillModes == {"Ionian", "Dorian"}
DrillTimeouts == {None, Some(1)}
\* What is played during scale_degree_practice: C, D, E and a release.
DegreeMessages == {NoteOn(n, 64) : n \in {60, 62, 64}} \cup {NoteOff(60)}
\* What is played during mode_practice: the white keys from C4 to C5.
ModeMessages == {NoteOn(n, 64) : n \in {60, 62, 64, 65, 67, 69, 71, 72}}

\* What arrives while a scale is played: the key presses and a release.
SeqMessages == {NoteOn(n, 64) : n \in MidiNotes} \cup {NoteOn(60, 0)}

Timeouts == {None} \cup {Some(t) : t \in 0..MaxTimeout}
\* The sequence timeouts: none, zero and the largest.
SeqTimeouts == {None, Some(0), Some(MaxTimeout)}

\* A clock counts the seconds up to limit and stops there.
Advance(clock, limit) == IF clock < limit THEN clock + 1 ELSE clock

\* Python truthiness of an Optional[float]: None and 0 are false.
Truthy(t) == t # None /\ t[1] # 0

VARIABLES
    \* MIDIHandler
    input_port,     \* None, or Some(device) for an open mido port
    device_name,    \* None or Some(device)
    port,           \* the open port's queue of pending messages, oldest first
    \* listen_for_note
    l_pc,           \* "idle", "loop", "returned", "raised"
    l_timeout,      \* the timeout argument
    l_start_time,   \* None, or Some(0): the clock value read at entry
    l_clock,        \* seconds since start_time was read
    l_result,       \* the value returned: None or Some(note)
    l_exc,          \* the exception raised: "RuntimeError", "KeyboardInterrupt"
    \* _play_scale_sequence
    s_pc,           \* "idle", "check", "listen", "returned", "raised"
    expected_scale, \* the expected note names, in order
    s_timeout,      \* the timeout argument (for the whole sequence)
    s_start_time,   \* None, or Some(0): the clock value read at entry
    s_clock,        \* seconds since start_time was read
    notes_played,   \* the names of the notes judged so far
    current_index,  \* the cursor into expected_scale
    s_result,       \* the value returned: None until then, Some(TRUE/FALSE)
    s_exc,          \* the exception that left the call
    \* _prompt_and_validate
    p_pc,           \* "idle", "listen1", "listen2", "returned", "raised"
    expected_note,  \* the expected note name
    is_root,        \* a root-note prompt, not counted in the statistics
    p_timeout,      \* the timeout argument
    midi_note,      \* what the listener returned last: None or Some(note)
    hints,          \* how often this call printed the hint
    listens,        \* how often this call invoked listen_for_note
    p_result,       \* the value returned: None until then, Some(TRUE/FALSE)
    p_exc,          \* the exception that left the call
    \* SessionStats
    correct,
    incorrect,
    total_attempts,
    \* scale_degree_practice / mode_practice, and main after the drill
    drill,            \* "none", "degree" or "mode": the drill main runs
    d_pc,             \* "idle"; "root", "first", "second" (degree);
                      \* "ascending", "descending", "pause" (mode);
                      \* "returned", "raised", "displayed"
    d_timeout,        \* the drill's timeout argument
    root_note,        \* degree: the root of this round
    prompts_in_round, \* degree: random.randint(5, 7)
    prompts_done,     \* degree: the iterations of the for loop begun so far
    d_expected_note,  \* degree: expected_note of the current interval
    scale_ascending,  \* mode: the scale of this round
    accuracy,         \* what get_accuracy returned to display_final_stats
    \* a call of the note-name functions of music_theory
    t_pc,             \* "idle", "called", "returned"
    note1,            \* the arguments
    note2,
    t_match,          \* notes_match(note1, note2): None until returned
    t_match_back,     \* notes_match(note2, note1)
    t_index1,         \* Some(note_name_to_index(note1)) once returned
    t_index2,         \* Some(note_name_to_index(note2))
    \* a call of generate_scale, and the reversal mode_practice makes of it
    g_pc,             \* "idle", "called", "returned", "raised"
    g_root,           \* the arguments root_note and mode
    g_mode,
    g_scale,          \* None, or Some(the list it returned)
    g_descending,     \* None, or Some(scale[::-1])
    \* history of the handler, never read by the program
    close_calls,      \* calls of close() since the handler last opened a port
    port_closes,      \* times the port it last opened was closed
    \* main
    m_pc,             \* "none", "connect", "menu", "pressure", "modes", "run",
                      \* "finally", "done", "exited"
    mode_choice,      \* what select_practice_mode returned
    m_timeout,        \* what select_time_pressure returned
    enabled_modes,    \* None, or what select_modes returned
    m_exc             \* the exception main handled

handler_vars == <<input_port, device_name, port>>
listen_vars == <<l_pc, l_timeout, l_start_time, l_clock, l_result, l_exc>>
seq_vars == <<s_pc, expected_scale, s_timeout, s_start_time, s_clock, notes_played,
              current_index, s_result, s_exc>>
prompt_vars == <<p_pc, expected_note, is_root, p_timeout, midi_note, hints, listens,
                 p_result, p_exc>>
stats_vars == <<correct, incorrect, total_attempts>>
drill_vars == <<drill, d_pc, d_timeout, root_note, prompts_in_round, prompts_done,
                d_expected_note, scale_ascending, accuracy>>
scale_vars == <<g_pc, g_root, g_mode, g_scale, g_descending>>
theory_vars == <<t_pc, note1, note2, t_match, t_match_back, t_index1, t_index2,
                 scale_vars>>
close_vars == <<close_calls, port_closes>>
main_vars == <<m_pc, mode_choice, m_timeout, enabled_modes, m_exc>>
vars == <<handler_vars, listen_vars, seq_vars, prompt_vars, stats_vars, drill_vars,
          theory_vars, close_vars, main_vars>>

\* ------------------------------------------------------------- MIDIHandler
\* What mido.get_input_names() can report.
DeviceLists == {<<>>, <<"dev1">>, <<"dev1", "dev2">>}

\* MIDIHandler.__init__
HandlerInit ==
    /\ input_port = None
    /\ device_name = None
    /\ port = <<>>
    /\ close_calls = 0
    /\ port_closes = 0

\* connect_midi_input(device_name=None): devices is what the system reports,
\* choice the number the user types when there are several devices (0: the
\* user cancels), open_ok whether mido.open_input succeeds.
ConnectSucceeds(devices, choice, open_ok) ==
    /\ devices # <<>>
    /\ Len(devices) > 1 => choice # 0
    /\ open_ok

ConnectHandler(devices, choice, open_ok) ==
    IF devices = <<>>
    THEN UNCHANGED <<handler_vars, close_vars>>
    ELSE IF Len(devices) > 1 /\ choice = 0
    THEN UNCHANGED <<handler_vars, close_vars>>
    ELSE LET name == IF Len(devices) = 1 THEN devices[1] ELSE devices[choice]
         IN  IF open_ok
             THEN /\ input_port' = Some(name)
                  /\ device_name' = Some(name)
                  /\ port' = <<>>
                  /\ close_calls' = 0
                  /\ port_closes' = 0
             ELSE UNCHANGED <<handler_vars, close_vars>>

connect_midi_input(devices, choice, open_ok) ==
    /\ l_pc = "idle"
    /\ ConnectHandler(devices, choice, open_ok)
    /\ UNCHANGED <<listen_vars, seq_vars, prompt_vars, stats_vars>>
    /\ UNCHANGED drill_vars
    /\ UNCHANGED theory_vars
    /\ UNCHANGED main_vars

\* self.input_port = None; the handler keeps the port when it is left out.
ClosedPortKept == input_port

ClosedPort == None

\* close(): a second close, or a close of a handler that never connected,
\* finds input_port None and does nothing.

CloseHandler ==
    /\ close_calls' = close_calls + 1
    /\ IF input_port # None
       THEN /\ port_closes' = port_closes + 1
            /\ input_port' = ClosedPort
            /\ device_name' = None
            /\ port' = <<>>
       ELSE UNCHANGED <<handler_vars, port_closes>>

close ==
    /\ l_pc = "idle"
    /\ close_calls < MaxCloses
    /\ CloseHandler
    /\ UNCHANGED <<listen_vars, seq_vars, prompt_vars, stats_vars>>
    /\ UNCHANGED drill_vars
    /\ UNCHANGED theory_vars
    /\ UNCHANGED main_vars

SeqRunning == s_pc \in {"check", "listen"}

SeqPastDeadline ==
    /\ SeqRunning
    /\ s_timeout # None
    /\ s_start_time # None
    /\ s_clock - s_start_time[1] > s_timeout[1]

\* The keyboard sends a message: the open port queues it until it is polled.
Arrive(m) ==
    /\ input_port # None
    /\ Len(port) < MaxQueue
    /\ port' = Append(port, [m EXCEPT !.late = SeqPastDeadline,
                                      !.live = SeqRunning])
    /\ UNCHANGED <<input_port, device_name, listen_vars, seq_vars, prompt_vars,
                   stats_vars>>
    /\ UNCHANGED drill_vars
    /\ UNCHANGED theory_vars
    /\ UNCHANGED <<close_vars, main_vars>>

\* --------------------------------------------------------- listen_for_note
\* The return of listen_for_note and what its caller does with the value are
\* one step: the caller's action takes the returning iteration (ListenValue,
\* ListenPortAfter) and ListenLoop the iterations that go round again.
ListenIdle ==
    /\ l_pc = "idle"
    /\ l_timeout = None
    /\ l_start_time = None
    /\ l_clock = 0
    /\ l_result = None
    /\ l_exc = "none"

\* if not self.input_port: raise RuntimeError(...)
NotConnectedUnchecked == FALSE

NotConnected == input_port = None

\* start_time = time.time() if timeout else None, and into the loop.
ListenStart(t) ==
    /\ l_pc' = "loop"
    /\ l_timeout' = t
    /\ l_start_time' = IF Truthy(t) THEN Some(0) ELSE None
    /\ l_clock' = 0
    /\ l_result' = None
    /\ l_exc' = "none"

\* The frame is gone once the caller has the return value or the exception.
ListenLeave ==
    /\ l_pc' = "idle"
    /\ l_timeout' = None
    /\ l_start_time' = None
    /\ l_clock' = 0
    /\ l_result' = None
    /\ l_exc' = "none"

\* if timeout and (time.time() - start_time) >= timeout
TimedOutNoneIsZero(t, start, now) ==
    now >= (IF t = None THEN 0 ELSE t[1])

TimedOut(t, start, now) ==
    Truthy(t) /\ (now - start[1]) >= t[1]

\* msg.type == 'note_on' and msg.velocity > 0
QualifiesAnyVelocity(m) == m.type = "note_on"

Qualifies(m) == m.type = "note_on" /\ m.velocity > 0

\* What one iteration of the while loop does: "timeout" returns None,
\* "sleep" finds the port empty, sleeps 0.01 s and loops, "note" returns the
\* polled key press, "drop" polled any other message and loops.
ListenOutcome ==
    IF TimedOut(l_timeout, l_start_time, l_clock) THEN "timeout"
    ELSE IF port = <<>> THEN "sleep"
    ELSE IF Qualifies(Head(port)) THEN "note"
    ELSE "drop"

ListenReturns == l_pc = "loop" /\ ListenOutcome \in {"timeout", "note"}

\* return None / return msg.note
ListenValue == IF ListenOutcome = "note" THEN Some(Head(port).note) ELSE None

\* msg = self.input_port.poll() takes the oldest pending message.
ListenPortFlushed ==
    IF ListenOutcome = "note" THEN <<>>
    ELSE IF ListenOutcome = "drop" THEN Tail(port) ELSE port

ListenPortAfter == IF ListenOutcome \in {"note", "drop"} THEN Tail(port) ELSE port

\* An iteration that goes round again.
ListenLoop ==
    /\ l_pc = "loop"
    /\ ListenOutcome \in {"sleep", "drop"}
    /\ port' = ListenPortAfter
    /\ UNCHANGED <<input_port, device_name, listen_vars, seq_vars, prompt_vars,
                   stats_vars>>
    /\ UNCHANGED drill_vars
    /\ UNCHANGED theory_vars
    /\ UNCHANGED <<close_vars, main_vars>>

\* Who waits for the listener.
Caller ==
    IF s_pc = "listen" THEN "seq"
    ELSE IF p_pc \in {"listen1", "listen2"} THEN "prompt"
    ELSE "none"

\* One second passes: every running clock that was started advances.
Tick ==
    /\ \/ l_pc = "loop" /\ l_start_time # None
       \/ SeqRunning /\ s_start_time # None
    /\ l_clock' = IF l_pc = "loop" /\ l_start_time # None
                  THEN Advance(l_clock, l_timeout[1]) ELSE l_clock
    /\ s_clock' = IF SeqRunning /\ s_start_time # None
                  THEN Advance(s_clock, s_timeout[1] + 1) ELSE s_clock
    /\ UNCHANGED <<handler_vars, l_pc, l_timeout, l_start_time, l_result, l_exc>>
    /\ UNCHANGED <<s_pc, expected_scale, s_timeout, s_start_time, notes_played,
                   current_index, s_result, s_exc>>
    /\ UNCHANGED <<prompt_vars, stats_vars>>
    /\ UNCHANGED drill_vars
    /\ UNCHANGED theory_vars
    /\ UNCHANGED <<close_vars, main_vars>>

\* ------------------------------------------- a caller of listen_for_note
CallListen(t) ==
    /\ l_pc = "idle"
    /\ Caller = "none"
    /\ IF NotConnected
       THEN /\ l_pc' = "raised"
            /\ l_exc' = "RuntimeError"
            /\ l_timeout' = t
            /\ UNCHANGED <<l_start_time, l_clock, l_result>>
       ELSE ListenStart(t)
    /\ UNCHANGED <<handler_vars, seq_vars, prompt_vars, stats_vars>>
    /\ UNCHANGED drill_vars
    /\ UNCHANGED theory_vars
    /\ UNCHANGED <<close_vars, main_vars>>

\* The iteration that returns, to a caller that only keeps the value.
ListenReturn ==
    /\ ListenReturns
    /\ Caller = "none"
    /\ l_pc' = "returned"
    /\ l_result' = ListenValue
    /\ port' = ListenPortAfter
    /\ UNCHANGED <<input_port, device_name, l_timeout, l_start_time, l_clock, l_exc,
                   seq_vars, prompt_vars, stats_vars>>
    /\ UNCHANGED drill_vars
    /\ UNCHANGED theory_vars
    /\ UNCHANGED <<close_vars, main_vars>>

ListenDone ==
    /\ l_pc \in {"returned", "raised"}
    /\ ListenLeave
    /\ UNCHANGED <<handler_vars, seq_vars, prompt_vars, stats_vars>>
    /\ UNCHANGED drill_vars
    /\ UNCHANGED theory_vars
    /\ UNCHANGED <<close_vars, main_vars>>

\* ---------------------------------------------------- _play_scale_sequence
SeqIdle ==
    /\ s_pc = "idle"
    /\ expected_scale = <<>>
    /\ s_timeout = None
    /\ s_start_time = None
    /\ s_clock = 0
    /\ notes_played = <<>>
    /\ current_index = 0
    /\ s_result = None
    /\ s_exc = "none"

\* An exception leaves the call: its frame (the locals) is gone.
SeqRaise(exc) ==
    /\ s_pc' = "raised"
    /\ s_exc' = exc
    /\ expected_scale' = <<>>
    /\ s_timeout' = None
    /\ s_start_time' = None
    /\ s_clock' = 0
    /\ notes_played' = <<>>
    /\ current_index' = 0
    /\ s_result' = None

\* Entry: start_time = time.time() if timeout is not None else None,
\* notes_played = [], current_index = 0.
SeqEnter(scale, t) ==
    /\ s_pc' = "check"
    /\ expected_scale' = scale
    /\ s_timeout' = t
    /\ s_start_time' = IF t # None THEN Some(0) ELSE None
    /\ s_clock' = 0
    /\ notes_played' = <<>>
    /\ current_index' = 0
    /\ s_result' = None
    /\ s_exc' = "none"

\* if timeout is not None and start_time is not None:
\*     if (time.time() - start_time) >= timeout:
SeqTimedOutNever(t, start, now) == FALSE

SeqTimedOut(t, start, now) ==
    t # None /\ start # None /\ (now - start[1]) >= t[1]

\* while current_index < len(expected_scale)
SeqMoreOffByOne(index, scale) == index < Len(scale) - 1

SeqMoreAtLeastOnce(index, scale) == index = 0 \/ index < Len(scale)

SeqMore(index, scale) == index < Len(scale)

\* midi_note = midi_handler.listen_for_note(timeout=3.0): the call, which
\* follows the check of the sequence timeout at once.
SeqListen ==
    IF NotConnected
    THEN /\ SeqRaise("RuntimeError")
         /\ UNCHANGED listen_vars
    ELSE /\ s_pc' = "listen"
         /\ ListenStart(Some(PER_EVENT_TIMEOUT))
         /\ UNCHANGED <<expected_scale, s_timeout, s_start_time, s_clock,
                        notes_played, current_index, s_result, s_exc>>

\* The loop test, then the check of the timeout for the entire sequence.
SeqCheck ==
    /\ s_pc = "check"
    /\ l_pc = "idle"
    /\ IF SeqMore(current_index, expected_scale)
       THEN IF SeqTimedOut(s_timeout, s_start_time, s_clock)
            THEN /\ s_pc' = "returned"
                 /\ s_result' = Some(FALSE)
                 /\ UNCHANGED <<listen_vars, expected_scale, s_timeout,
                                s_start_time, s_clock, notes_played,
                                current_index, s_exc>>
            ELSE SeqListen
       ELSE /\ s_pc' = "returned"
            /\ s_result' = Some(TRUE)
            /\ UNCHANGED <<listen_vars, expected_scale, s_timeout, s_start_time,
                           s_clock, notes_played, current_index, s_exc>>
    /\ UNCHANGED <<handler_vars, prompt_vars, stats_vars>>
    /\ UNCHANGED drill_vars
    /\ UNCHANGED theory_vars
    /\ UNCHANGED <<close_vars, main_vars>>

\* What the sequence does with a note that does not match: it returns False.
\* It stays in the loop, cursor unmoved, when it tolerates the wrong note.
SeqMismatchTolerated ==
    /\ s_pc' = "check"
    /\ UNCHANGED <<s_result, current_index>>

SeqMismatch ==
    /\ s_pc' = "returned"
    /\ s_result' = Some(FALSE)
    /\ UNCHANGED current_index

\* if midi_note is None: continue.  It ends the sequence when a wait without
\* a note counts as a failure.
SeqNoNoteFails ==
    /\ s_pc' = "returned"
    /\ s_result' = Some(FALSE)
    /\ UNCHANGED <<notes_played, current_index>>

SeqNoNote ==
    /\ s_pc' = "check"
    /\ UNCHANGED <<notes_played, current_index, s_result>>

\* The listener returns: None loops again; a note is named, recorded and
\* compared with expected_scale[current_index].
SeqJudge ==
    /\ s_pc = "listen"
    /\ ListenReturns
    /\ port' = ListenPortAfter
    /\ ListenLeave
    /\ IF ListenValue = None
       THEN SeqNoNote
       ELSE LET played_note == midi_to_note_name(ListenValue[1])
                expected == expected_scale[current_index + 1]
            IN  /\ notes_played' = Append(notes_played, played_note)
                /\ IF notes_match(played_note, expected)
                   THEN /\ current_index' = current_index + 1
                        /\ s_pc' = "check"
                        /\ UNCHANGED s_result
                   ELSE SeqMismatch
    /\ UNCHANGED <<input_port, device_name, expected_scale, s_timeout, s_start_time,
                   s_clock, s_exc, prompt_vars, stats_vars>>
    /\ UNCHANGED drill_vars
    /\ UNCHANGED theory_vars
    /\ UNCHANGED <<close_vars, main_vars>>

\* ------------------------------------- a caller of _play_scale_sequence
Scales == UNION {[1..n -> ExpectedNames] : n \in 0..MaxLen}

CallSeq(scale, t) ==
    /\ s_pc = "idle"
    /\ d_pc = "idle"
    /\ p_pc = "idle"
    /\ l_pc = "idle"
    /\ SeqEnter(scale, t)
    /\ UNCHANGED <<handler_vars, listen_vars, prompt_vars, stats_vars>>
    /\ UNCHANGED drill_vars
    /\ UNCHANGED theory_vars
    /\ UNCHANGED <<close_vars, main_vars>>

SeqDone ==
    /\ s_pc \in {"returned", "raised"}
    /\ d_pc = "idle"
    /\ s_pc' = "idle"
    /\ expected_scale' = <<>>
    /\ s_timeout' = None
    /\ s_start_time' = None
    /\ s_clock' = 0
    /\ notes_played' = <<>>
    /\ current_index' = 0
    /\ s_result' = None
    /\ s_exc' = "none"
    /\ UNCHANGED <<handler_vars, listen_vars, prompt_vars, stats_vars>>
    /\ UNCHANGED drill_vars
    /\ UNCHANGED theory_vars
    /\ UNCHANGED <<close_vars, main_vars>>

\* ------------------------------------------------------------ SessionStats
\* ------------------------------------------------- float arithmetic
\* A Python float is an IEEE 754 double.  One that is not negative is kept
\* as [zero |-> FALSE, e |-> e, f |-> <<f1, f2, f3>>], of value
\* (1 + F / 2^52) * 2^e, where F = f1 * 2^34 + f2 * 2^16 + f3 is the 52-bit
\* fraction cut in pieces of HighBits, HighBits and LowBits bits; or as Zero.
HighBits == 18
LowBits == 16
High == 2^HighBits
Low == 2^LowBits

Zero == [zero |-> TRUE, e |-> 0, f |-> <<0, 0, 0>>]

\* The position of the highest binary digit of n, 0 < n < 2 * High.
Ilog2(n) == CHOOSE k \in 0..HighBits : 2^k <= n /\ n < 2^(k + 1)

\* The next double above x, and the next below, x not Zero.
FloatSucc(x) ==
    IF x.f[3] + 1 < Low THEN [x EXCEPT !.f = <<x.f[1], x.f[2], x.f[3] + 1>>]
    ELSE IF x.f[2] + 1 < High THEN [x EXCEPT !.f = <<x.f[1], x.f[2] + 1, 0>>]
    ELSE IF x.f[1] + 1 < High THEN [x EXCEPT !.f = <<x.f[1] + 1, 0, 0>>]
    ELSE [x EXCEPT !.e = x.e + 1, !.f = <<0, 0, 0>>]

FloatPred(x) ==
    IF x.f[3] > 0 THEN [x EXCEPT !.f = <<x.f[1], x.f[2], x.f[3] - 1>>]
    ELSE IF x.f[2] > 0 THEN [x EXCEPT !.f = <<x.f[1], x.f[2] - 1, Low - 1>>]
    ELSE IF x.f[1] > 0 THEN [x EXCEPT !.f = <<x.f[1] - 1, High - 1, Low - 1>>]
    ELSE [x EXCEPT !.e = x.e - 1, !.f = <<High - 1, High - 1, Low - 1>>]

\* Round to nearest, ties to even: x is the exact value cut to 52 fraction
\* bits, half the first bit cut off, below whether any bit after it is set.
Round(x, half, below) ==
    IF half /\ (below \/ x.f[3] % 2 = 1) THEN FloatSucc(x) ELSE x

\* int / int for a >= 0, b > 0: the double nearest to the quotient, by long
\* division of a * 2^-e by b (1 <= quotient < 2) in pieces of HighBits bits.
float_div(a, b) ==
    IF a = 0 THEN Zero
    ELSE LET up == IF a >= b THEN 0
                   ELSE CHOOSE k \in 1..HighBits :
                            a * 2^k >= b /\ a * 2^(k - 1) < b
             down == IF a >= b THEN Ilog2(a \div b) ELSE 0
             n == a * 2^up
             d == b * 2^down
             r0 == n - d
             q1 == (r0 * High) \div d
             r1 == (r0 * High) % d
             q2 == (r1 * High) \div d
             r2 == (r1 * High) % d
             q3 == (r2 * High) \div d
             r3 == (r2 * High) % d
             cut == High \div Low
         IN  Round([zero |-> FALSE, e |-> down - up, f |-> <<q1, q2, q3 \div cut>>],
                   (q3 % cut) \div (cut \div 2) = 1,
                   (q3 % (cut \div 2)) # 0 \/ r3 # 0)

\* float * int for a small k >= 0: the int is converted exactly, the exact
\* product is rounded.
float_mul(x, k) ==
    IF x.zero \/ k = 0 THEN Zero
    ELSE LET p3 == x.f[3] * k
             p2 == x.f[2] * k + p3 \div Low
             p1 == x.f[1] * k + p2 \div High
             p0 == k + p1 \div High
             g1 == p1 % High
             g2 == p2 % High
             g3 == p3 % Low
             j == Ilog2(p0)
             w == 2^j
             n1 == (p0 - w) * (High \div w) + g1 \div w
             n2 == (g1 % w) * (High \div w) + g2 \div w
             n3 == (g2 % w) * (Low \div w) + g3 \div w
             dropped == g3 % w
         IN  Round([zero |-> FALSE, e |-> x.e + j, f |-> <<n1, n2, n3>>],
                   j > 0 /\ dropped \div (2^(j - 1)) = 1,
                   j > 0 /\ dropped % (2^(j - 1)) # 0)

\* The float of a small int, which is exact.
float_of_int(n) ==
    IF n = 0 THEN Zero
    ELSE LET e == Ilog2(n)
         IN  [zero |-> FALSE, e |-> e, f |-> <<(n - 2^e) * 2^(HighBits - e), 0, 0>>]

\* x <= y
FloatLeq(x, y) ==
    \/ x.zero
    \/ /\ ~y.zero
       /\ \/ x.e < y.e
          \/ /\ x.e = y.e
             /\ \/ x.f[1] < y.f[1]
                \/ x.f[1] = y.f[1] /\ x.f[2] < y.f[2]
                \/ x.f[1] = y.f[1] /\ x.f[2] = y.f[2] /\ x.f[3] <= y.f[3]

\* ------------------------------------------------------------ SessionStats
\* get_accuracy divides unless there was no attempt.
PERCENT == 100

AccuracyDividesAlways(total) == TRUE

AccuracyDivides(total) == total # 0

get_accuracy(stats_correct, stats_total) ==
    IF AccuracyDivides(stats_total)
    THEN float_mul(float_div(stats_correct, stats_total), PERCENT)
    ELSE Zero

StatsInit ==
    /\ correct = 0
    /\ incorrect = 0
    /\ total_attempts = 0

record_correct ==
    /\ correct' = correct + 1
    /\ total_attempts' = total_attempts + 1
    /\ UNCHANGED incorrect

record_incorrect_uncounted ==
    /\ incorrect' = incorrect + 1
    /\ UNCHANGED <<correct, total_attempts>>

record_incorrect ==
    /\ incorrect' = incorrect + 1
    /\ total_attempts' = total_attempts + 1
    /\ UNCHANGED correct

\* ---------------------------------------------------- _prompt_and_validate
PromptIdle ==
    /\ p_pc = "idle"
    /\ expected_note = "C"
    /\ is_root = FALSE
    /\ p_timeout = None
    /\ midi_note = None
    /\ hints = 0
    /\ listens = 0
    /\ p_result = None
    /\ p_exc = "none"

\* An exception leaves the call: its frame (the locals) is gone.
PromptRaise(exc) ==
    /\ p_pc' = "raised"
    /\ p_exc' = exc
    /\ expected_note' = "C"
    /\ is_root' = FALSE
    /\ p_timeout' = None
    /\ midi_note' = None
    /\ hints' = 0
    /\ listens' = 0
    /\ p_result' = None

\* The call: the prompt is printed and the first listen begins.
PromptEnter(note, root, t) ==
    IF NotConnected
    THEN /\ PromptRaise("RuntimeError")
         /\ UNCHANGED listen_vars
    ELSE /\ p_pc' = "listen1"
         /\ expected_note' = note
         /\ is_root' = root
         /\ p_timeout' = t
         /\ midi_note' = None
         /\ hints' = 0
         /\ listens' = 1
         /\ p_result' = None
         /\ p_exc' = "none"
         /\ ListenStart(t)

\* if not is_root: root notes do not count in the statistics.
CountedAlways(root) == TRUE

Counted(root) == ~root

\* played_note = midi_to_note_name(midi_note), then the validation.  A
\* midi_note of None makes midi_to_note_name raise TypeError (None % 12).
PromptValidate(note) ==
    IF note = None
    THEN /\ PromptRaise("TypeError")
         /\ UNCHANGED stats_vars
    ELSE /\ midi_note' = note
         /\ p_pc' = "returned"
         /\ UNCHANGED <<expected_note, is_root, p_timeout, hints, listens, p_exc>>
         /\ IF notes_match(midi_to_note_name(note[1]), expected_note)
            THEN /\ p_result' = Some(TRUE)
                 /\ IF Counted(is_root) THEN record_correct
                                        ELSE UNCHANGED stats_vars
            ELSE /\ p_result' = Some(FALSE)
                 /\ IF Counted(is_root) THEN record_incorrect
                                        ELSE UNCHANGED stats_vars

\* The timeout the second listen is given: listen_for_note() has none.
SecondTimeoutSame == p_timeout

SecondTimeout == None

\* midi_note = midi_handler.listen_for_note(timeout=timeout) returns: None
\* prints the hint and listens again without timeout, a note is validated.
PromptFirst ==
    /\ p_pc = "listen1"
    /\ ListenReturns
    /\ port' = ListenPortAfter
    /\ IF ListenValue = None
       THEN /\ hints' = hints + 1
            /\ listens' = listens + 1
            /\ midi_note' = None
            /\ p_pc' = "listen2"
            /\ ListenStart(SecondTimeout)
            /\ UNCHANGED <<expected_note, is_root, p_timeout, p_result, p_exc,
                           stats_vars>>
       ELSE /\ ListenLeave
            /\ PromptValidate(ListenValue)
    /\ UNCHANGED <<input_port, device_name, seq_vars>>
    /\ UNCHANGED drill_vars
    /\ UNCHANGED theory_vars
    /\ UNCHANGED <<close_vars, main_vars>>

\* midi_note = midi_handler.listen_for_note() returns.
PromptSecond ==
    /\ p_pc = "listen2"
    /\ ListenReturns
    /\ port' = ListenPortAfter
    /\ ListenLeave
    /\ PromptValidate(ListenValue)
    /\ UNCHANGED <<input_port, device_name, seq_vars>>
    /\ UNCHANGED drill_vars
    /\ UNCHANGED theory_vars
    /\ UNCHANGED <<close_vars, main_vars>>

\* ------------------------------------------------------- KeyboardInterrupt
\* Ctrl+C while the listener loops: except KeyboardInterrupt: raise.  Neither
\* _play_scale_sequence nor _prompt_and_validate catches it.
KeyboardInterrupt ==
    /\ l_pc = "loop"
    /\ CASE Caller = "seq" ->
              /\ ListenLeave
              /\ SeqRaise("KeyboardInterrupt")
              /\ UNCHANGED prompt_vars
         [] Caller = "prompt" ->
              /\ ListenLeave
              /\ PromptRaise("KeyboardInterrupt")
              /\ UNCHANGED seq_vars
         [] Caller = "none" ->
              /\ l_pc' = "raised"
              /\ l_exc' = "KeyboardInterrupt"
              /\ UNCHANGED <<l_timeout, l_start_time, l_clock, l_result, seq_vars,
                             prompt_vars>>
    /\ UNCHANGED <<handler_vars, stats_vars>>
    /\ UNCHANGED drill_vars
    /\ UNCHANGED theory_vars
    /\ UNCHANGED <<close_vars, main_vars>>

\* ------------------------------------- a caller of _prompt_and_validate
\* The most validations one session records.
MaxAttempts == 2

CallPrompt(note, root, t) ==
    /\ p_pc = "idle"
    /\ s_pc = "idle"
    /\ l_pc = "idle"
    /\ d_pc = "idle"
    /\ total_attempts < MaxAttempts
    /\ PromptEnter(note, root, t)
    /\ UNCHANGED <<handler_vars, seq_vars, stats_vars>>
    /\ UNCHANGED drill_vars
    /\ UNCHANGED theory_vars
    /\ UNCHANGED <<close_vars, main_vars>>

PromptDone ==
    /\ p_pc \in {"returned", "raised"}
    /\ d_pc = "idle"
    /\ p_pc' = "idle"
    /\ expected_note' = "C"
    /\ is_root' = FALSE
    /\ p_timeout' = None
    /\ midi_note' = None
    /\ hints' = 0
    /\ listens' = 0
    /\ p_result' = None
    /\ p_exc' = "none"
    /\ UNCHANGED <<handler_vars, listen_vars, seq_vars, stats_vars>>
    /\ UNCHANGED drill_vars
    /\ UNCHANGED theory_vars
    /\ UNCHANGED <<close_vars, main_vars>>

\* ---------------------------------------------------------- specifications
\* The handler and its listener, called by any caller.
\* ---------------------------------------------------- the drills' frames
\* The frame of a call that returned or raised is gone.
SeqLeave ==
    /\ s_pc' = "idle"
    /\ expected_scale' = <<>>
    /\ s_timeout' = None
    /\ s_start_time' = None
    /\ s_clock' = 0
    /\ notes_played' = <<>>
    /\ current_index' = 0
    /\ s_result' = None
    /\ s_exc' = "none"

PromptLeave ==
    /\ p_pc' = "idle"
    /\ expected_note' = "C"
    /\ is_root' = FALSE
    /\ p_timeout' = None
    /\ midi_note' = None
    /\ hints' = 0
    /\ listens' = 0
    /\ p_result' = None
    /\ p_exc' = "none"

\* stats = SessionStats()
NewStats ==
    /\ correct' = 0
    /\ incorrect' = 0
    /\ total_attempts' = 0

\* --------------------------------------------------- scale_degree_practice
\* The top of while True: a new root and number of prompts, and the prompt
\* for the root note.
DegreeNewRound(t) ==
    \E note \in DrillRoots, n \in PROMPTS_MIN..PROMPTS_MAX :
        /\ root_note' = note
        /\ prompts_in_round' = n
        /\ prompts_done' = 0
        /\ d_pc' = "root"
        /\ PromptEnter(note, TRUE, t)
        /\ UNCHANGED d_expected_note

\* for _ in range(prompts_in_round), with done iterations behind: the next
\* interval is drawn and prompted, or the round is over.
DegreeForLoop(done, t) ==
    IF done < prompts_in_round
    THEN /\ \E interval \in DrillIntervals :
              LET note == calculate_interval(root_note, interval)
              IN  /\ d_expected_note' = note
                  /\ PromptEnter(note, FALSE, t)
         /\ prompts_done' = done + 1
         /\ d_pc' = "first"
         /\ UNCHANGED <<root_note, prompts_in_round>>
    ELSE DegreeNewRound(t)

StartDegree(t) ==
    /\ d_pc = "idle"
    /\ drill = "none"
    /\ p_pc = "idle"
    /\ s_pc = "idle"
    /\ l_pc = "idle"
    /\ drill' = "degree"
    /\ d_timeout' = t
    /\ NewStats
    /\ DegreeNewRound(t)
    /\ UNCHANGED <<handler_vars, seq_vars, scale_ascending, accuracy>>
    /\ UNCHANGED theory_vars
    /\ UNCHANGED <<close_vars, main_vars>>

\* The for loop begins no more than MaxPrompts iterations in a round.
LoopBounded == prompts_done < prompts_in_round => prompts_done < MaxPrompts

DegreeRootDoneAnyway ==
    /\ drill = "degree"
    /\ d_pc = "root"
    /\ p_pc = "returned"
    /\ DegreeForLoop(0, d_timeout)
    /\ UNCHANGED <<handler_vars, seq_vars, stats_vars, drill, d_timeout,
                   scale_ascending, accuracy>>
    /\ UNCHANGED theory_vars
    /\ UNCHANGED <<close_vars, main_vars>>

\* if not _prompt_and_validate(..., is_root=True, ...): continue
DegreeRootDone ==
    /\ drill = "degree"
    /\ d_pc = "root"
    /\ p_pc = "returned"
    /\ IF p_result = Some(FALSE)
       THEN DegreeNewRound(d_timeout)
       ELSE DegreeForLoop(0, d_timeout)
    /\ UNCHANGED <<handler_vars, seq_vars, stats_vars, drill, d_timeout,
                   scale_ascending, accuracy>>
    /\ UNCHANGED theory_vars
    /\ UNCHANGED <<close_vars, main_vars>>

\* if not _prompt_and_validate(...): the same interval is prompted again.
DegreeFirstDone ==
    /\ drill = "degree"
    /\ d_pc = "first"
    /\ p_pc = "returned"
    /\ IF p_result = Some(FALSE)
       THEN /\ d_pc' = "second"
            /\ PromptEnter(d_expected_note, FALSE, d_timeout)
            /\ UNCHANGED <<root_note, prompts_in_round, prompts_done,
                           d_expected_note>>
       ELSE DegreeForLoop(prompts_done, d_timeout)
    /\ UNCHANGED <<handler_vars, seq_vars, stats_vars, drill, d_timeout,
                   scale_ascending, accuracy>>
    /\ UNCHANGED theory_vars
    /\ UNCHANGED <<close_vars, main_vars>>

\* The value of the second _prompt_and_validate is dropped: the for loop
\* goes on.
DegreeAfterSecondRetries ==
    IF p_result = Some(FALSE)
    THEN /\ d_pc' = "second"
         /\ PromptEnter(d_expected_note, FALSE, d_timeout)
         /\ UNCHANGED <<root_note, prompts_in_round, prompts_done,
                        d_expected_note>>
    ELSE DegreeForLoop(prompts_done, d_timeout)

DegreeAfterSecond == DegreeForLoop(prompts_done, d_timeout)

DegreeSecondDone ==
    /\ drill = "degree"
    /\ d_pc = "second"
    /\ p_pc = "returned"
    /\ DegreeAfterSecond
    /\ UNCHANGED <<handler_vars, seq_vars, stats_vars, drill, d_timeout,
                   scale_ascending, accuracy>>
    /\ UNCHANGED theory_vars
    /\ UNCHANGED <<close_vars, main_vars>>

\* ----------------------------------------------------------- mode_practice
\* sequence_timeout = None if timeout is None else timeout * 3
sequence_timeout_unscaled(t) == t

sequence_timeout(t) == IF t = None THEN None ELSE Some(t[1] * SEQUENCE_FACTOR)

\* The top of while True: a mode and a key, the scale, and the ascending
\* sequence.
ModeNewRound(t) ==
    \E mode \in DrillModes, key \in DrillRoots :
        /\ scale_ascending' = generate_scale(key, mode)
        /\ d_pc' = "ascending"
        /\ SeqEnter(generate_scale(key, mode), sequence_timeout(t))

StartMode(t) ==
    /\ d_pc = "idle"
    /\ drill = "none"
    /\ p_pc = "idle"
    /\ s_pc = "idle"
    /\ l_pc = "idle"
    /\ drill' = "mode"
    /\ d_timeout' = t
    /\ NewStats
    /\ ModeNewRound(t)
    /\ UNCHANGED <<handler_vars, listen_vars, prompt_vars, root_note,
                   prompts_in_round, prompts_done, d_expected_note, accuracy>>
    /\ UNCHANGED theory_vars
    /\ UNCHANGED <<close_vars, main_vars>>

\* if ascending_correct:
AscendingPassedAlways == TRUE

AscendingPassed == s_result = Some(TRUE)

\* The ascending sequence returned: a pass is recorded and the descending
\* sequence follows, a failure is recorded and the round is over.
ModeAscendingDone ==
    /\ drill = "mode"
    /\ d_pc = "ascending"
    /\ s_pc = "returned"
    /\ IF AscendingPassed
       THEN /\ record_correct
            /\ d_pc' = "descending"
            /\ SeqEnter(Reversed(scale_ascending), sequence_timeout(d_timeout))
       ELSE /\ record_incorrect
            /\ d_pc' = "pause"
            /\ SeqLeave
    /\ UNCHANGED <<handler_vars, listen_vars, prompt_vars, drill, d_timeout,
                   root_note, prompts_in_round, prompts_done, d_expected_note,
                   scale_ascending, accuracy>>
    /\ UNCHANGED theory_vars
    /\ UNCHANGED <<close_vars, main_vars>>

ModeDescendingDone ==
    /\ drill = "mode"
    /\ d_pc = "descending"
    /\ s_pc = "returned"
    /\ IF s_result = Some(TRUE) THEN record_correct ELSE record_incorrect
    /\ d_pc' = "pause"
    /\ SeqLeave
    /\ UNCHANGED <<handler_vars, listen_vars, prompt_vars, drill, d_timeout,
                   root_note, prompts_in_round, prompts_done, d_expected_note,
                   scale_ascending, accuracy>>
    /\ UNCHANGED theory_vars
    /\ UNCHANGED <<close_vars, main_vars>>

\* input("Press Enter for next mode..."): Enter starts the next round (no
\* more than MaxAttempts records are followed by one).
ModePauseEnter ==
    /\ drill = "mode"
    /\ d_pc = "pause"
    /\ total_attempts < MaxAttempts
    /\ ModeNewRound(d_timeout)
    /\ UNCHANGED <<handler_vars, listen_vars, prompt_vars, stats_vars, drill,
                   d_timeout, root_note, prompts_in_round, prompts_done,
                   d_expected_note, accuracy>>
    /\ UNCHANGED theory_vars
    /\ UNCHANGED <<close_vars, main_vars>>

\* What the drill's except KeyboardInterrupt does with the statistics.
InterruptRecordsMiss == record_incorrect

InterruptRecord == UNCHANGED stats_vars

\* input() raises: Ctrl+C is caught by the drill, which returns stats; an
\* EOFError leaves the drill.
ModePauseRaise(exc) ==
    /\ drill = "mode"
    /\ d_pc = "pause"
    /\ IF exc = "KeyboardInterrupt"
       THEN /\ d_pc' = "returned"
            /\ InterruptRecord
       ELSE /\ d_pc' = "raised"
            /\ UNCHANGED stats_vars
    /\ UNCHANGED <<handler_vars, listen_vars, seq_vars, prompt_vars, drill,
                   d_timeout, root_note, prompts_in_round, prompts_done,
                   d_expected_note, scale_ascending, accuracy>>
    /\ UNCHANGED theory_vars
    /\ UNCHANGED <<close_vars, main_vars>>

\* ------------------------------------------- the drills' try ... except
\* An exception left _prompt_and_validate or _play_scale_sequence: except
\* KeyboardInterrupt ends the session and stats is returned; any other
\* exception leaves the drill.
DrillUnwind ==
    /\ d_pc \in {"root", "first", "second", "ascending", "descending"}
    /\ p_pc = "raised" \/ s_pc = "raised"
    /\ LET exc == IF p_pc = "raised" THEN p_exc ELSE s_exc
       IN  IF exc = "KeyboardInterrupt"
           THEN /\ d_pc' = "returned"
                /\ InterruptRecord
           ELSE /\ d_pc' = "raised"
                /\ UNCHANGED stats_vars
    /\ PromptLeave
    /\ SeqLeave
    /\ UNCHANGED <<handler_vars, listen_vars, drill, d_timeout, root_note,
                   prompts_in_round, prompts_done, d_expected_note,
                   scale_ascending, accuracy>>
    /\ UNCHANGED theory_vars
    /\ UNCHANGED <<close_vars, main_vars>>

\* main: display_final_stats(stats) after the drill returned.  str(stats)
\* calls get_accuracy; a division by zero there would leave main by its
\* handler of exceptions.
DisplayStats ==
    /\ d_pc = "returned"
    /\ IF AccuracyDivides(total_attempts) /\ total_attempts = 0
       THEN /\ d_pc' = "raised"
            /\ UNCHANGED accuracy
       ELSE /\ d_pc' = "displayed"
            /\ accuracy' = Some(get_accuracy(correct, total_attempts))
    /\ UNCHANGED <<handler_vars, listen_vars, seq_vars, prompt_vars, stats_vars,
                   drill, d_timeout, root_note, prompts_in_round, prompts_done,
                   d_expected_note, scale_ascending>>
    /\ UNCHANGED theory_vars
    /\ UNCHANGED <<close_vars, main_vars>>

\* ----------------------------------------------- the note-name functions
\* The names the functions are called with: the sharp and the flat
\* spellings, and a name that is no note.
NoteNames == Names(CHROMATIC_NOTES) \cup Names(FLAT_NOTES)
TheoryNames == NoteNames \cup {"H"}

TheoryIdle ==
    /\ t_pc = "idle"
    /\ note1 = "C"
    /\ note2 = "C"
    /\ t_match = None
    /\ t_match_back = None
    /\ t_index1 = None
    /\ t_index2 = None
    /\ g_pc = "idle"
    /\ g_root = "C"
    /\ g_mode = "Ionian"
    /\ g_scale = None
    /\ g_descending = None

\* notes_match and note_name_to_index are applied to the arguments.
ApplyTheory ==
    /\ t_pc = "called"
    /\ t_pc' = "returned"
    /\ t_match' = Some(notes_match(note1, note2))
    /\ t_match_back' = Some(notes_match(note2, note1))
    /\ t_index1' = Some(note_name_to_index(note1))
    /\ t_index2' = Some(note_name_to_index(note2))
    /\ UNCHANGED <<note1, note2, handler_vars, listen_vars, seq_vars, prompt_vars,
                   stats_vars, drill_vars>>
    /\ UNCHANGED <<close_vars, main_vars, scale_vars>>

\* The next call, with any two names.
CallTheory(a, b) ==
    /\ t_pc = "returned"
    /\ t_pc' = "called"
    /\ note1' = a
    /\ note2' = b
    /\ t_match' = None
    /\ t_match_back' = None
    /\ t_index1' = None
    /\ t_index2' = None
    /\ UNCHANGED <<handler_vars, listen_vars, seq_vars, prompt_vars, stats_vars,
                   drill_vars>>
    /\ UNCHANGED <<close_vars, main_vars, scale_vars>>

\* The roots and modes generate_scale is called with: every name of the two
\* chromatic lists and a name of neither, every mode and a name that is none.
ScaleRoots == NoteNames \cup {"H"}
ScaleModes == DOMAIN MODES \cup {"Blues"}

\* The two raise ValueError statements of generate_scale.
ScaleRaises(root, mode) ==
    mode \notin DOMAIN MODES \/ note_name_to_index(root) = None

\* generate_scale is applied to the arguments; a list it returns is reversed
\* as mode_practice reverses it.
ApplyScale ==
    /\ g_pc = "called"
    /\ IF ScaleRaises(g_root, g_mode)
       THEN /\ g_pc' = "raised"
            /\ g_scale' = None
            /\ g_descending' = None
       ELSE /\ g_pc' = "returned"
            /\ g_scale' = Some(generate_scale(g_root, g_mode))
            /\ g_descending' = Some(Reversed(generate_scale(g_root, g_mode)))
    /\ UNCHANGED <<g_root, g_mode>>
    /\ UNCHANGED <<t_pc, note1, note2, t_match, t_match_back, t_index1, t_index2>>
    /\ UNCHANGED <<handler_vars, listen_vars, seq_vars, prompt_vars, stats_vars,
                   drill_vars, close_vars, main_vars>>

\* The next call, with any root and any mode.
CallScale(root, mode) ==
    /\ g_pc \in {"returned", "raised"}
    /\ g_pc' = "called"
    /\ g_root' = root
    /\ g_mode' = mode
    /\ g_scale' = None
    /\ g_descending' = None
    /\ UNCHANGED <<t_pc, note1, note2, t_match, t_match_back, t_index1, t_index2>>
    /\ UNCHANGED <<handler_vars, listen_vars, seq_vars, prompt_vars, stats_vars,
                   drill_vars, close_vars, main_vars>>

\* -------------------------------------------------------------------- main
MainIdle ==
    /\ m_pc = "none"
    /\ mode_choice = None
    /\ m_timeout = None
    /\ enabled_modes = None
    /\ m_exc = "none"

\* What the menus can give: the time pressure levels of main and the
\* answers to the checkbox of modes (None: the prompt was cancelled).
TIME_PRESSURE_CONFIG ==
    [none |-> None, low |-> Some(15), medium |-> Some(10), hard |-> Some(5)]
PressureLevels == {"none", "hard"}
ModeSelections == {None, Some(<<>>), Some(<<"Dorian">>), Some(<<"Ionian", "Lydian">>)}

MainStart ==
    /\ m_pc = "start"
    /\ mode_choice = None
    /\ m_timeout = None
    /\ enabled_modes = None
    /\ m_exc = "none"

\* midi_handler, success = auto_connect_midi(); sys.exit(1) without it.
auto_connect_midi(devices, choice, open_ok) ==
    /\ m_pc = "start"
    /\ ConnectHandler(devices, choice, open_ok)
    /\ m_pc' = IF ConnectSucceeds(devices, choice, open_ok) THEN "menu" ELSE "exited"
    /\ UNCHANGED <<mode_choice, m_timeout, enabled_modes, m_exc>>
    /\ UNCHANGED <<listen_vars, seq_vars, prompt_vars, stats_vars, drill_vars,
                   theory_vars>>

\* mode_choice = select_practice_mode(): 1, 2, or 0 (Quit, Ctrl+C); 0 returns
\* from main.
select_practice_mode(choice) ==
    /\ m_pc = "menu"
    /\ mode_choice' = Some(choice)
    /\ m_pc' = IF choice = 0 THEN "finally" ELSE "pressure"
    /\ UNCHANGED <<m_timeout, enabled_modes, m_exc>>
    /\ UNCHANGED <<handler_vars, close_vars, listen_vars, seq_vars, prompt_vars,
                   stats_vars, drill_vars, theory_vars>>

\* timeout = select_time_pressure(): the level chosen, medium when the menu
\* is interrupted.
select_time_pressure(level, interrupted) ==
    /\ m_pc = "pressure"
    /\ m_timeout' = IF interrupted THEN TIME_PRESSURE_CONFIG["medium"]
                    ELSE TIME_PRESSURE_CONFIG[level]
    /\ m_pc' = IF mode_choice = Some(2) THEN "modes" ELSE "run"
    /\ UNCHANGED <<mode_choice, enabled_modes, m_exc>>
    /\ UNCHANGED <<handler_vars, close_vars, listen_vars, seq_vars, prompt_vars,
                   stats_vars, drill_vars, theory_vars>>

\* enabled_modes = select_modes(): what was ticked, Ionian and Aeolian when
\* nothing was or the menu was cancelled.
select_modes(selected) ==
    /\ m_pc = "modes"
    /\ enabled_modes' = IF selected = None \/ selected = Some(<<>>)
                        THEN Some(<<"Ionian", "Aeolian">>)
                        ELSE selected
    /\ m_pc' = "run"
    /\ UNCHANGED <<mode_choice, m_timeout, m_exc>>
    /\ UNCHANGED <<handler_vars, close_vars, listen_vars, seq_vars, prompt_vars,
                   stats_vars, drill_vars, theory_vars>>

\* The parameters of mode_practice, and the keywords main calls it with: a
\* keyword that is no parameter makes the call raise TypeError.
ModePracticeParameters == {"midi_handler", "timeout"}
ModePracticeKeywords == {"timeout", "enabled_modes"}

\* stats = scale_degree_practice(midi_handler, timeout=timeout)
MainRunDegree ==
    /\ m_pc = "run"
    /\ mode_choice = Some(1)
    /\ StartDegree(m_timeout)

\* stats = mode_practice(midi_handler, timeout=timeout,
\* enabled_modes=enabled_modes)
MainRunMode ==
    /\ m_pc = "run"
    /\ mode_choice = Some(2)
    /\ IF ModePracticeKeywords \subseteq ModePracticeParameters
       THEN StartMode(m_timeout)
       ELSE /\ m_exc' = "TypeError"
            /\ m_pc' = "finally"
            /\ UNCHANGED <<mode_choice, m_timeout, enabled_modes>>
            /\ UNCHANGED <<handler_vars, close_vars, listen_vars, seq_vars,
                           prompt_vars, stats_vars, drill_vars, theory_vars>>

\* display_final_stats(stats) once the drill returned.
MainDisplay ==
    /\ m_pc = "run"
    /\ DisplayStats

\* finally: if midi_handler: midi_handler.close().  It leaves the port open
\* when it is skipped.
MainCleanupSkipped == UNCHANGED <<handler_vars, close_vars>>

MainCleanup == CloseHandler

\* The end of main: after the statistics, after "except Exception" caught
\* what left the drill, or after the return at mode_choice 0.
MainFinally ==
    /\ \/ m_pc = "finally"
       \/ m_pc = "run" /\ d_pc \in {"displayed", "raised"}
    /\ MainCleanup
    /\ m_pc' = "done"
    /\ m_exc' = IF m_pc = "run" /\ d_pc = "raised" THEN "Exception" ELSE m_exc
    /\ UNCHANGED <<mode_choice, m_timeout, enabled_modes>>
    /\ UNCHANGED <<listen_vars, seq_vars, prompt_vars, stats_vars, drill_vars,
                   theory_vars>>

DrillIdle ==
    /\ drill = "none"
    /\ d_pc = "idle"
    /\ d_timeout = None
    /\ root_note = "C"
    /\ prompts_in_round = 0
    /\ prompts_done = 0
    /\ d_expected_note = "C"
    /\ scale_ascending = <<>>
    /\ accuracy = None

Init ==
    /\ HandlerInit
    /\ ListenIdle
    /\ SeqIdle
    /\ PromptIdle
    /\ StatsInit
    /\ DrillIdle
    /\ TheoryIdle
    /\ MainIdle

Next ==
    \/ \E d \in DeviceLists, c \in 0..2, ok \in BOOLEAN :
          c <= Len(d) /\ connect_midi_input(d, c, ok)
    \/ close
    \/ \E m \in Messages : Arrive(m)
    \/ \E t \in Timeouts : CallListen(t)
    \/ ListenLoop
    \/ ListenReturn
    \/ KeyboardInterrupt
    \/ Tick
    \/ ListenDone

Spec == Init /\ [][Next]_vars

\* The drills are handed a connected handler (main connects first).
ConnectedInit ==
    /\ input_port = Some("dev1")
    /\ device_name = Some("dev1")
    /\ port = <<>>
    /\ close_calls = 0
    /\ port_closes = 0
    /\ ListenIdle
    /\ SeqIdle
    /\ PromptIdle
    /\ StatsInit
    /\ DrillIdle
    /\ TheoryIdle
    /\ MainIdle

\* _play_scale_sequence, called with any scale and timeout.
SeqNext ==
    \/ \E scale \in Scales, t \in SeqTimeouts : CallSeq(scale, t)
    \/ SeqCheck
    \/ SeqJudge
    \/ SeqDone
    \/ \E m \in SeqMessages : Len(port) < MaxPending /\ Arrive(m)
    \/ ListenLoop
    \/ KeyboardInterrupt
    \/ Tick

SeqSpec == ConnectedInit /\ [][SeqNext]_vars

\* The program runs (its steps are taken) and time advances.
SeqFairness ==
    /\ WF_vars(SeqCheck)
    /\ WF_vars(SeqJudge)
    /\ WF_vars(Tick)

\* For the fair runs a key press arrives when the port is empty.
FairSeqNext ==
    \/ \E scale \in Scales, t \in SeqTimeouts : CallSeq(scale, t)
    \/ SeqCheck
    \/ SeqJudge
    \/ SeqDone
    \/ \E m \in SeqMessages : port = <<>> /\ Arrive(m)
    \/ ListenLoop
    \/ KeyboardInterrupt
    \/ Tick

FairSeqSpec == ConnectedInit /\ [][FairSeqNext]_vars /\ SeqFairness

\* _prompt_and_validate, called with any expected note and timeout.
PromptNext ==
    \/ \E note \in PromptNames, root \in BOOLEAN, t \in Timeouts :
          CallPrompt(note, root, t)
    \/ PromptFirst
    \/ PromptSecond
    \/ PromptDone
    \/ \E m \in PromptMessages : Arrive(m)
    \/ ListenLoop
    \/ KeyboardInterrupt
    \/ Tick

PromptSpec == ConnectedInit /\ [][PromptNext]_vars

\* The note-name functions, called with any two names.
TheoryInit ==
    /\ HandlerInit
    /\ ListenIdle
    /\ SeqIdle
    /\ PromptIdle
    /\ StatsInit
    /\ DrillIdle
    /\ MainIdle
    /\ t_pc = "called"
    /\ note1 \in TheoryNames
    /\ note2 \in TheoryNames
    /\ t_match = None
    /\ t_match_back = None
    /\ t_index1 = None
    /\ t_index2 = None
    /\ g_pc = "idle"
    /\ g_root = "C"
    /\ g_mode = "Ionian"
    /\ g_scale = None
    /\ g_descending = None

TheoryNext ==
    \/ ApplyTheory
    \/ \E a \in TheoryNames, b \in TheoryNames : CallTheory(a, b)

TheorySpec == TheoryInit /\ [][TheoryNext]_vars

\* generate_scale, called again and again.
ScaleInit ==
    /\ HandlerInit
    /\ ListenIdle
    /\ SeqIdle
    /\ PromptIdle
    /\ StatsInit
    /\ DrillIdle
    /\ MainIdle
    /\ t_pc = "idle"
    /\ note1 = "C"
    /\ note2 = "C"
    /\ t_match = None
    /\ t_match_back = None
    /\ t_index1 = None
    /\ t_index2 = None
    /\ g_pc = "called"
    /\ g_root \in ScaleRoots
    /\ g_mode \in ScaleModes
    /\ g_scale = None
    /\ g_descending = None

ScaleNext ==
    \/ ApplyScale
    \/ \E root \in ScaleRoots, mode \in ScaleModes : CallScale(root, mode)

ScaleSpec == ScaleInit /\ [][ScaleNext]_vars

\* main, from the start of the program.
MainInit ==
    /\ HandlerInit
    /\ ListenIdle
    /\ SeqIdle
    /\ PromptIdle
    /\ StatsInit
    /\ DrillIdle
    /\ TheoryIdle
    /\ MainStart

MainNext ==
    \/ \E d \in DeviceLists, c \in 0..2, ok \in BOOLEAN :
          c <= Len(d) /\ auto_connect_midi(d, c, ok)
    \/ \E choice \in 0..2 : select_practice_mode(choice)
    \/ \E level \in PressureLevels, interrupted \in BOOLEAN :
          select_time_pressure(level, interrupted)
    \/ \E selected \in ModeSelections : select_modes(selected)
    \/ MainRunDegree
    \/ MainRunMode
    \/ MainDisplay
    \/ MainFinally
    \/ DegreeRootDone
    \/ (p_result = Some(FALSE) \/ LoopBounded) /\ DegreeFirstDone
    \/ LoopBounded /\ DegreeSecondDone
    \/ DrillUnwind
    \/ PromptFirst
    \/ PromptSecond
    \/ \E m \in DegreeMessages : Len(port) < MaxPending /\ Arrive(m)
    \/ ListenLoop
    \/ KeyboardInterrupt
    \/ Tick

MainSpec == MainInit /\ [][MainNext]_vars

\* mode_practice, called with each timeout main can select.
PressureTimeouts == {TIME_PRESSURE_CONFIG[level] : level \in DOMAIN TIME_PRESSURE_CONFIG}

PressureNext ==
    \/ \E t \in PressureTimeouts : StartMode(t)
    \/ ModeAscendingDone
    \/ ModeDescendingDone
    \/ ModePauseEnter
    \/ \E exc \in {"KeyboardInterrupt", "EOFError"} : ModePauseRaise(exc)
    \/ DrillUnwind
    \/ SeqCheck
    \/ SeqJudge
    \/ \E m \in ModeMessages : port = <<>> /\ Arrive(m)
    \/ ListenLoop
    \/ KeyboardInterrupt
    \/ Tick

PressureSpec == ConnectedInit /\ [][PressureNext]_vars

\* scale_degree_practice without a time limit, through whole rounds: the
\* root C and the second D are played.
RoundMessages == {NoteOn(n, 64) : n \in {60, 62}}
\* The validations after which no further interval is drawn.
RoundAttempts == 2 * PROMPTS_MAX

RoundNext ==
    \/ StartDegree(None)
    \/ DegreeRootDone
    \/ total_attempts <= RoundAttempts /\ DegreeFirstDone
    \/ total_attempts <= RoundAttempts /\ DegreeSecondDone
    \/ PromptFirst
    \/ \E m \in RoundMessages : port = <<>> /\ Arrive(m)
    \/ ListenLoop

RoundSpec == ConnectedInit /\ [][RoundNext]_vars

\* The drills
DrillMessages == IF drill = "mode" THEN ModeMessages ELSE DegreeMessages

DrillNext ==
    \/ \E t \in DrillTimeouts : StartDegree(t)
    \/ DegreeRootDone
    \/ (p_result = Some(FALSE) \/ LoopBounded) /\ DegreeFirstDone
    \/ LoopBounded /\ DegreeSecondDone
    \/ \E t \in DrillTimeouts : StartMode(t)
    \/ ModeAscendingDone
    \/ ModeDescendingDone
    \/ ModePauseEnter
    \/ \E exc \in {"KeyboardInterrupt", "EOFError"} : ModePauseRaise(exc)
    \/ DrillUnwind
    \/ DisplayStats
    \/ PromptFirst
    \/ PromptSecond
    \/ SeqCheck
    \/ SeqJudge
    \/ \E m \in DrillMessages : Len(port) < MaxPending /\ Arrive(m)
    \/ ListenLoop
    \/ KeyboardInterrupt
    \/ Tick

DrillSpec == ConnectedInit /\ [][DrillNext]_vars

\* ------------------------------------------------------------------ claims
Last(seq) == seq[Len(seq)]

\* C1: _play_scale_sequence returns True only after it has judged exactly
\* len(expected_scale) notes, the k-th of which matches expected_scale[k];
\* the cursor counts the matches one by one: every judged note up to the
\* cursor matched its own position, and at most one more note was judged,
\* a mismatch that ended the call.
C1_StrictOrder ==
    /\ current_index <= Len(expected_scale)
    /\ current_index <= Len(notes_played)
    /\ Len(notes_played) <= current_index + 1
    /\ \A k \in 1..current_index : notes_match(notes_played[k], expected_scale[k])
    /\ s_result = Some(TRUE) =>
          /\ Len(notes_played) = Len(expected_scale)
          /\ current_index = Len(expected_scale)
    /\ Len(notes_played) = current_index + 1 =>
          /\ s_result = Some(FALSE)
          /\ ~notes_match(Last(notes_played), expected_scale[current_index + 1])

C1_Witness ==
    /\ s_pc = "returned"
    /\ s_result = Some(TRUE)
    /\ expected_scale = <<"C", "Db", "D">>
    /\ notes_played = <<"C", "C#", "D">>

\* C2: the first judged note that does not match expected_scale[current_index]
\* makes the call return False in that very step, the cursor unmoved; after
\* the return the call takes no further event from the port; expected
\* [C, D, Db] against the stream [C, C#, ...] is False at the second event.
C2_MismatchReturnsFalse ==
    [][/\ (/\ s_pc = "listen"
           /\ Len(notes_played') = Len(notes_played) + 1
           /\ ~notes_match(Last(notes_played'), expected_scale[current_index + 1]))
          => /\ s_pc' = "returned"
             /\ s_result' = Some(FALSE)
             /\ current_index' = current_index
       /\ s_pc = "returned" => Len(port') >= Len(port)
       /\ (/\ expected_scale' = <<"C", "D", "Db">>
           /\ notes_played' = <<"C", "C#">>)
          => s_result' = Some(FALSE)]_vars

C2_Witness ==
    /\ s_pc = "returned"
    /\ s_result = Some(FALSE)
    /\ expected_scale = <<"C", "D", "Db">>
    /\ notes_played = <<"C", "C#">>
    /\ port = <<NoteOn(62, 64)>>

\* C3: with a bounded sequence deadline, once the time elapsed since the
\* start of the call exceeds the deadline no event that arrives after that
\* instant is judged (so none can make the call return True).
C3_DeadlineDominates ==
    [][(s_pc = "listen" /\ Len(notes_played') > Len(notes_played))
          => ~Head(port).late]_vars

C5_BoundedTimeoutReturnsNone ==
    /\ [](l_pc = "returned" /\ l_result = None
            => l_timeout # None /\ l_clock >= l_timeout[1])
    /\ [][(l_pc = "loop" /\ l_timeout # None /\ l_clock >= l_timeout[1])
            => /\ Len(port') >= Len(port)
               /\ l_pc' = "returned" => l_result' = None]_vars

\* C6: listen_for_note called with timeout None never returns None: an
\* iteration that finds the port empty stays in the loop, and the call
\* leaves the loop only with the key press it polled or by KeyboardInterrupt.
C6_UnboundedNeverReturnsNone ==
    [][(l_pc = "loop" /\ l_timeout = None)
         => \/ l_pc' = "loop"
            \/ /\ l_pc' = "returned"
               /\ port # <<>>
               /\ l_result' = Some(Head(port).note)
            \/ /\ l_pc' = "raised"
               /\ l_exc' = "KeyboardInterrupt"]_vars

C6_Witness ==
    /\ l_pc = "returned"
    /\ l_timeout = None
    /\ l_result = Some(62)

\* C7: listen_for_note returns a note number only for a polled note_on with
\* velocity > 0, in the iteration that polled it; an iteration that polls a
\* note_on with velocity 0 or any other message does not return.
C7_OnlyKeyPressReturned ==
    [][/\ (l_pc = "loop" /\ l_pc' = "returned" /\ l_result' # None)
          => /\ port # <<>>
             /\ Head(port).type = "note_on"
             /\ Head(port).velocity > 0
             /\ l_result' = Some(Head(port).note)
       /\ (l_pc = "loop" /\ Len(port') < Len(port))
          => IF Head(port).type = "note_on" /\ Head(port).velocity > 0
             THEN l_pc' = "returned" /\ l_result' = Some(Head(port).note)
             ELSE l_pc' = "loop"]_vars

C7_Witness ==
    /\ l_pc = "returned"
    /\ l_result = Some(73)
    /\ port = <<NoteOn(60, 0)>>

\* C8 as stated: a call takes a message from the port only in the iteration
\* that returns a note, and then exactly one.
C8_OnlyReturnedEventRemoved ==
    [][(l_pc = "loop" /\ Len(port') < Len(port))
         => /\ Len(port') = Len(port) - 1
            /\ l_pc' = "returned"
            /\ l_result' # None]_vars

\* C8 amended: every iteration takes at most the oldest message and leaves
\* the others as they were; the call returns a note by taking exactly that
\* key press, every message taken by an iteration that does not return is
\* not a key press, and the iteration that returns None takes nothing.
C8_OneKeyPressRemoved ==
    [][l_pc = "loop"
         => /\ \/ port' = port
               \/ port # <<>> /\ port' = Tail(port)
               \/ port' \in {Append(port, m) : m \in Messages}
            /\ Len(port') > Len(port) => l_pc' = l_pc
            /\ (l_pc' = "returned" /\ l_result' # None)
                  => port # <<>> /\ port' = Tail(port)
            /\ (l_pc' = "returned" /\ l_result' = None) => port' = port
            /\ (l_pc' = "loop" /\ Len(port') < Len(port))
                  => ~(Head(port).type = "note_on" /\ Head(port).velocity > 0)]_vars

C8_Witness ==
    /\ l_pc = "returned"
    /\ l_result = Some(60)
    /\ l_timeout = Some(MaxTimeout)
    /\ port = <<NoteOn(62, 64)>>

C10_HintThenUnboundedListen ==
    /\ [](/\ p_pc = "listen1" => hints = 0 /\ listens = 1 /\ l_timeout = p_timeout
          /\ p_pc = "listen2" => hints = 1 /\ listens = 2 /\ l_timeout = None
          /\ p_pc = "returned" => /\ midi_note # None
                                  /\ hints \in {0, 1}
                                  /\ listens = 1 + hints
          /\ p_pc = "raised" => p_exc \in {"KeyboardInterrupt", "RuntimeError"})
    /\ [][/\ hints' > hints
             => /\ p_pc = "listen1"
                /\ p_pc' = "listen2"
                /\ l_timeout # None
                /\ l_clock >= l_timeout[1]
                /\ port' = port
          /\ (p_pc = "listen1" /\ p_pc' = "returned")
             => /\ hints' = 0
                /\ port # <<>>
                /\ midi_note' = Some(Head(port).note)
          /\ p_pc = "listen2"
             => \/ p_pc' = "listen2"
                \/ /\ p_pc' = "returned"
                   /\ port # <<>>
                   /\ midi_note' = Some(Head(port).note)
                \/ /\ p_pc' = "raised"
                   /\ p_exc' = "KeyboardInterrupt"]_vars

C10_Witness ==
    /\ p_pc = "returned"
    /\ hints = 1
    /\ listens = 2
    /\ p_timeout = Some(MaxTimeout)
    /\ expected_note = "Db"
    /\ midi_note = Some(73)
    /\ p_result = Some(TRUE)

\* C11: a call of _prompt_and_validate with is_root false that returns,
\* returns True exactly when the judged MIDI note taken mod 12 is the
\* chromatic position of expected_note, and records exactly one result:
\* correct by one for True, incorrect by one for False, after the first
\* listen or after the hint alike.
C11_VerdictIsPitchClass ==
    [][(p_pc \in {"listen1", "listen2"} /\ p_pc' = "returned")
         => LET verdict == note_name_to_index(expected_note) =
                               Some(Head(port).note % 12)
            IN  /\ p_result' = Some(verdict)
                /\ ~is_root
                     => /\ total_attempts' = total_attempts + 1
                        /\ correct' = correct + (IF verdict THEN 1 ELSE 0)
                        /\ incorrect' = incorrect + (IF verdict THEN 0 ELSE 1)]_vars

C11_Witness ==
    /\ p_pc = "returned"
    /\ ~is_root
    /\ hints = 1
    /\ expected_note = "E"
    /\ midi_note = Some(63)
    /\ p_result = Some(FALSE)
    /\ correct = 1
    /\ incorrect = 1

\* C12: a call of _prompt_and_validate with is_root true never changes
\* correct, incorrect or total_attempts, whatever note is played and whether
\* or not the hint was shown.
C12_RootNotCounted ==
    [][(p_pc \in {"listen1", "listen2"} /\ is_root)
         => UNCHANGED <<correct, incorrect, total_attempts>>]_vars

C12_Witness ==
    /\ p_pc = "returned"
    /\ is_root
    /\ hints = 1
    /\ p_result = Some(FALSE)
    /\ total_attempts = 1

\* C13: in every state of either drill correct + incorrect equals
\* total_attempts, the three counters are not negative, and no step makes
\* any of them smaller.
C13_CountersConsistent ==
    /\ [](/\ correct + incorrect = total_attempts
          /\ correct >= 0
          /\ incorrect >= 0
          /\ total_attempts >= 0)
    /\ [][/\ correct' >= correct
          /\ incorrect' >= incorrect
          /\ total_attempts' >= total_attempts]_vars

C13_Witness ==
    /\ drill = "mode"
    /\ d_pc = "pause"
    /\ correct = 2
    /\ incorrect = 1
    /\ total_attempts = 3

\* C14: a KeyboardInterrupt delivered while a drill waits in listen_for_note
\* (first wait, wait after the hint, wait for a note of a sequence) is
\* followed by no record: the drill returns at once with the counters as
\* they were when the interrupt arrived, and they stay so.
C14_InterruptRecordsNothing ==
    [][/\ (/\ d_pc \in {"root", "first", "second", "ascending", "descending"}
           /\ l_pc = "loop"
           /\ p_pc' = "raised" \/ s_pc' = "raised")
          => /\ UNCHANGED <<correct, incorrect, total_attempts>>
             /\ p_exc' = "KeyboardInterrupt" \/ s_exc' = "KeyboardInterrupt"
       /\ (p_pc = "raised" \/ s_pc = "raised")
          => /\ d_pc' \in {d_pc, "returned"}
             /\ UNCHANGED <<correct, incorrect, total_attempts, prompt_vars,
                            seq_vars>>
                  \/ d_pc' = "returned"
             /\ UNCHANGED <<correct, incorrect, total_attempts>>
       /\ d_pc = "returned"
          => UNCHANGED <<correct, incorrect, total_attempts>>]_vars

C14_Witness ==
    /\ drill = "degree"
    /\ d_pc = "returned"
    /\ correct = 1
    /\ incorrect = 2
    /\ total_attempts = 3

\* C15: in scale_degree_practice an interval prompt is validated a second
\* time, with the same expected note, exactly when its first validation
\* returned False; after the second validation the drill goes on to the next
\* prompt (or round) whatever it returned; each of the two validations adds
\* one record to the statistics.
C15_RetryOnce ==
    [][/\ (d_pc = "first" /\ p_pc = "returned" /\ p_pc' # "returned")
          => IF p_result = Some(FALSE)
             THEN /\ d_pc' = "second"
                  /\ expected_note' = expected_note
                  /\ ~is_root'
                  /\ prompts_done' = prompts_done
             ELSE /\ d_pc' \in {"first", "root"}
                  /\ d_pc' = "first" => prompts_done' = prompts_done + 1
       /\ (d_pc = "second" /\ p_pc = "returned" /\ p_pc' # "returned")
          => /\ d_pc' \in {"first", "root"}
             /\ d_pc' = "first" => prompts_done' = prompts_done + 1
       /\ (d_pc' = "second" /\ d_pc # "second")
          => d_pc = "first" /\ p_result = Some(FALSE)
       /\ (/\ d_pc \in {"first", "second"}
           /\ p_pc \in {"listen1", "listen2"}
           /\ p_pc' = "returned")
          => total_attempts' = total_attempts + 1]_vars

C15_Witness ==
    /\ drill = "degree"
    /\ d_pc = "first"
    /\ p_pc = "listen1"
    /\ prompts_done = 2
    /\ correct = 0
    /\ incorrect = 2

\* C16: in a round of mode_practice the descending sequence is begun only
\* when the ascending sequence returned True, which records one correct; an
\* ascending failure records one incorrect and ends the round; the
\* descending result records one correct or one incorrect; nothing else
\* records, so a completed round adds 1 or 2 to total_attempts.
C16_DescendingAfterAscending ==
    [][/\ (d_pc' = "descending" /\ d_pc # "descending")
          => /\ d_pc = "ascending"
             /\ s_pc = "returned"
             /\ s_result = Some(TRUE)
             /\ correct' = correct + 1
             /\ incorrect' = incorrect
             /\ total_attempts' = total_attempts + 1
             /\ expected_scale' = Reversed(scale_ascending)
       /\ (d_pc = "ascending" /\ d_pc' = "pause")
          => /\ s_result = Some(FALSE)
             /\ correct' = correct
             /\ incorrect' = incorrect + 1
             /\ total_attempts' = total_attempts + 1
       /\ (d_pc = "descending" /\ d_pc' = "pause")
          => /\ s_pc = "returned"
             /\ correct' = correct + (IF s_result = Some(TRUE) THEN 1 ELSE 0)
             /\ incorrect' = incorrect + (IF s_result = Some(TRUE) THEN 0 ELSE 1)
             /\ total_attempts' = total_attempts + 1
       /\ (drill = "mode" /\ d_pc' = d_pc)
          => UNCHANGED <<correct, incorrect, total_attempts>>
       /\ (d_pc = "pause" /\ d_pc' # "pause")
          => /\ d_pc' \in {"ascending", "returned", "raised"}
             /\ UNCHANGED <<correct, incorrect, total_attempts>>]_vars

C16_Witness ==
    /\ drill = "mode"
    /\ d_pc = "pause"
    /\ correct = 1
    /\ incorrect = 1
    /\ total_attempts = 2
    /\ scale_ascending = <<"C", "D", "E", "F", "G", "A", "B", "C">>

\* C17: _play_scale_sequence called with an empty expected_scale returns
\* True, for every timeout, without calling listen_for_note and without
\* taking a message from the port, pending messages included.
C17_EmptyScaleReturnsTrue ==
    /\ []((s_pc = "listen" \/ s_result = Some(FALSE)) => expected_scale # <<>>)
    /\ [][(s_pc = "check" /\ expected_scale = <<>>)
            => /\ l_pc' = "idle"
               /\ Len(port') >= Len(port)
               /\ s_pc' \in {"check", "returned"}
               /\ s_pc' = "returned" => s_result' = Some(TRUE) /\ port' = port]_vars

C17_Witness ==
    /\ s_pc = "returned"
    /\ expected_scale = <<>>
    /\ s_timeout = Some(0)
    /\ s_result = Some(TRUE)
    /\ port # <<>>

\* C18: for all names a and b among the sharp and flat spellings,
\* notes_match(a, b) is True exactly when note_name_to_index(a) equals
\* note_name_to_index(b).
C18_MatchIsSamePosition ==
    (t_pc = "returned" /\ note1 \in NoteNames /\ note2 \in NoteNames)
        => /\ t_index1[1] # None
           /\ t_index2[1] # None
           /\ t_match = Some(t_index1 = t_index2)

C18_Witness ==
    /\ t_pc = "returned"
    /\ note1 = "A#"
    /\ note2 = "Bb"
    /\ t_match = Some(TRUE)
    /\ t_index1 = Some(Some(10))

\* C19: notes_match is reflexive for every name, it gives the same value
\* with its arguments exchanged for every pair of names, and it is True in
\* both directions for every pair of ENHARMONIC_MAP.
C19_ReflexiveSymmetric ==
    t_pc = "returned"
        => /\ note1 = note2 => t_match = Some(TRUE)
           /\ t_match = t_match_back
           /\ (note1 \in DOMAIN ENHARMONIC_MAP /\ note2 = ENHARMONIC_MAP[note1])
                => t_match = Some(TRUE) /\ t_match_back = Some(TRUE)

C19_Witness ==
    /\ t_pc = "returned"
    /\ note1 = "Gb"
    /\ note2 = "F#"
    /\ t_match = Some(TRUE)
    /\ t_match_back = Some(TRUE)

\* The doubles at most two units in the last place away from x, x not Zero.
FloatNear(x) ==
    {x, FloatSucc(x), FloatSucc(FloatSucc(x)), FloatPred(x), FloatPred(FloatPred(x))}

\* C20 as stated: the accuracy displayed is 0.0 when there was no attempt,
\* and otherwise accuracy * total_attempts == 100 * correct (the product as
\* Python computes it) and 0 <= accuracy <= 100.
C20_AccuracyExact ==
    d_pc = "displayed"
        => IF total_attempts = 0
           THEN accuracy = Some(Zero)
           ELSE /\ float_mul(accuracy[1], total_attempts) = float_of_int(PERCENT * correct)
                /\ FloatLeq(accuracy[1], float_of_int(PERCENT))

\* C20 amended: get_accuracy never divides by zero; the accuracy displayed is
\* 0.0 when there was no attempt or no correct one, 100.0 when every attempt
\* was correct, at most 100, and accuracy * total_attempts, as Python
\* computes it, is at most two units in the last place away from
\* 100 * correct.
C20_AccuracyRounded ==
    /\ [](d_pc = "displayed"
            => IF total_attempts = 0 \/ correct = 0
               THEN accuracy = Some(Zero)
               ELSE /\ ~accuracy[1].zero
                    /\ correct = total_attempts => accuracy = Some(float_of_int(PERCENT))
                    /\ FloatLeq(accuracy[1], float_of_int(PERCENT))
                    /\ float_mul(accuracy[1], total_attempts)
                         \in FloatNear(float_of_int(PERCENT * correct)))
    /\ [][d_pc = "returned" => d_pc' \in {"returned", "displayed"}]_vars

C20_Witness ==
    /\ d_pc = "displayed"
    /\ correct = 1
    /\ total_attempts = 3
    /\ float_mul(accuracy[1], total_attempts) = FloatPred(float_of_int(PERCENT * correct))

\* C21: no event that arrived before a sequence validation began is judged
\* by it: the key press a sequence call judges arrived while a sequence
\* call was running.
C21_NoEarlierEventJudged ==
    [][(s_pc = "listen" /\ Len(notes_played') > Len(notes_played))
          => Head(port).live]_vars

\* C22: after any number of close() calls input_port and device_name are
\* None; the port the handler opened is closed at most once; a close() that
\* finds no port (a second close, a handler that never connected) changes
\* nothing.
C22_CloseIdempotent ==
    /\ [](/\ port_closes <= 1
          /\ close_calls > 0 => input_port = None /\ device_name = None)
    /\ [][close_calls' > close_calls
            => /\ input_port' = None
               /\ device_name' = None
               /\ input_port = None => UNCHANGED <<handler_vars, port_closes>>]_vars

C22_Witness ==
    /\ close_calls = 2
    /\ port_closes = 1
    /\ input_port = None
    /\ device_name = None

\* C23: when listen_for_note returns None to _play_scale_sequence (its 3 s
\* are over) the sequence does not end: the cursor, the notes played and the
\* port are as before and the loop goes on; a call without sequence timeout
\* that returned False judged a note that does not match the expected one.
C23_PerEventTimeoutContinues ==
    /\ [][(/\ s_pc = "listen"
           /\ l_pc = "loop"
           /\ TimedOut(l_timeout, l_start_time, l_clock)
           /\ l_pc' = "idle"
           /\ s_pc' # "raised")
            => /\ s_pc' = "check"
               /\ UNCHANGED <<current_index, notes_played, s_result, port>>]_vars
    /\ [](s_pc = "returned" /\ s_timeout = None /\ s_result = Some(FALSE)
            => /\ notes_played # <<>>
               /\ current_index < Len(expected_scale)
               /\ ~notes_match(Last(notes_played), expected_scale[current_index + 1]))

C23_Witness ==
    /\ s_pc = "listen"
    /\ s_timeout = None
    /\ l_timeout = Some(PER_EVENT_TIMEOUT)
    /\ l_clock = PER_EVENT_TIMEOUT
    /\ expected_scale = <<"C", "D">>
    /\ notes_played = <<"C">>
    /\ current_index = 1
    /\ port = <<>>

\* C24: a session of main in which Mode/Scale Practice was chosen ran the
\* mode drill, and every scale the drill started from main asks for is the
\* scale of a mode of enabled_modes.
C24_ModeDrillRestricted ==
    /\ (m_pc = "done" /\ mode_choice = Some(2)) => (drill = "mode" /\ m_exc = "none")
    /\ (m_pc # "none" /\ drill = "mode" /\ scale_ascending # <<>>)
          => \E mode \in Names(enabled_modes[1]), key \in Names(CHROMATIC_NOTES) :
                scale_ascending = generate_scale(key, mode)

\* C28: from the success of auto_connect_midi to the end of main close() is
\* not called; main ends only after its finally clause, with close() called
\* once and the port closed once, whether the user quit at the menu, the
\* drill returned after Ctrl+C or an exception left the call of the drill;
\* the statistics are displayed only after the drill returned, never after
\* a quit or an exception.
C28_CloseOnceOnExit ==
    /\ [](/\ m_pc \in {"menu", "pressure", "modes", "run", "finally"}
             => close_calls = 0 /\ port_closes = 0 /\ input_port # None
          /\ m_pc = "done"
             => close_calls = 1 /\ port_closes = 1 /\ input_port = None
          /\ d_pc = "displayed" => mode_choice = Some(1) /\ m_exc = "none"
          /\ (m_pc = "done" /\ (mode_choice = Some(0) \/ m_exc # "none"))
             => d_pc # "displayed" /\ accuracy = None)
    /\ [][/\ (d_pc' = "displayed" /\ d_pc # "displayed") => d_pc = "returned"
          /\ (m_pc' = "done" /\ m_pc # "done")
             => /\ close_calls' = close_calls + 1
                /\ port_closes' = port_closes + 1
                /\ m_pc = "finally" \/ d_pc \in {"displayed", "raised"}]_vars

C28_Witness ==
    /\ m_pc = "done"
    /\ d_pc = "displayed"
    /\ m_timeout = Some(5)
    /\ total_attempts = 2
    /\ close_calls = 1
    /\ port_closes = 1
    /\ input_port = None

\* C25: while mode_practice plays a sequence, ascending or descending, the
\* listener waits with a timeout of 3 seconds whatever timeout the drill was
\* given, and the timeout of the sequence is None when the drill was given
\* None and otherwise three times what it was given: 45 for 15, 30 for 10,
\* 15 for 5.
C25_SequenceDeadlineScales ==
    (drill = "mode" /\ d_pc \in {"ascending", "descending"} /\ SeqRunning)
        => /\ l_pc = "loop" => l_timeout = Some(3)
           /\ d_timeout = None <=> s_timeout = None
           /\ d_timeout # None => s_timeout = Some(3 * d_timeout[1])
           /\ d_timeout = Some(15) => s_timeout = Some(45)
           /\ d_timeout = Some(10) => s_timeout = Some(30)
           /\ d_timeout = Some(5) => s_timeout = Some(15)

C25_Witness ==
    /\ drill = "mode"
    /\ d_pc = "descending"
    /\ d_timeout = Some(15)
    /\ s_timeout = Some(45)
    /\ l_pc = "loop"
    /\ l_timeout = Some(3)
    /\ current_index = 1

\* C26: for every root that is a note name and every mode of MODES,
\* generate_scale returns 8 names; the k-th name has the chromatic index
\* (index of the root + k-th offset of the mode) mod 12; the first and the
\* last name are the root; every name is taken from the flat spellings when
\* the root is one of Db, Eb, Gb, Ab, Bb and from the sharp spellings
\* otherwise; and the descending list is the ascending one read backwards.
C26_ScaleOfMode ==
    (g_pc \in {"returned", "raised"} /\ g_root \in NoteNames
        /\ g_mode \in DOMAIN MODES)
        => LET scale == g_scale[1]
               down == g_descending[1]
               flat == g_root \in {"Db", "Eb", "Gb", "Ab", "Bb"}
           IN  /\ g_pc = "returned"
               /\ g_scale # None
               /\ DOMAIN scale = 1..8
               /\ \A k \in 1..8 :
                     /\ note_name_to_index(scale[k])
                          = Some((note_name_to_index(g_root)[1] + MODES[g_mode][k]) % 12)
                     /\ flat => scale[k] \in Names(FLAT_NOTES)
                     /\ ~flat => scale[k] \in Names(CHROMATIC_NOTES)
               /\ scale[1] = g_root
               /\ scale[8] = g_root
               /\ g_descending # None
               /\ DOMAIN down = 1..8
               /\ \A k \in 1..8 : down[k] = scale[9 - k]

C26_Witness ==
    /\ g_pc = "returned"
    /\ g_root = "Eb"
    /\ g_mode = "Lydian"
    /\ g_scale = Some(<<"Eb", "F", "G", "A", "Bb", "C", "D", "Eb">>)
    /\ g_descending = Some(<<"Eb", "D", "C", "Bb", "A", "G", "F", "Eb">>)

\* C27: in scale_degree_practice the first interval of a root is prompted
\* only when the prompt for that root has returned True.  When it returned
\* False the loop starts over: a root and a number of prompts are drawn and
\* the root is prompted, whatever the number of roots missed before, and
\* the statistics are as they were.  A round that was begun with a confirmed
\* root ends, and the next root is drawn, only after the for loop has drawn
\* as many intervals as were chosen for the round, between 5 and 7; each of
\* them is prompted once, and once more when the first answer was wrong.
C27_RootConfirmedFirst ==
    /\ [][/\ (d_pc = "root" /\ d_pc' = "first")
             => /\ p_pc = "returned"
                /\ p_result = Some(TRUE)
                /\ root_note' = root_note
                /\ prompts_done' = 1
                /\ ~is_root'
          /\ (d_pc = "root" /\ p_pc = "returned" /\ p_result = Some(FALSE)
                 /\ p_pc' # p_pc)
             => /\ d_pc' = "root"
                /\ p_pc' = "listen1"
                /\ is_root'
                /\ expected_note' = root_note'
                /\ root_note' \in Names(CHROMATIC_NOTES)
                /\ prompts_in_round' \in 5..7
                /\ prompts_done' = 0
                /\ UNCHANGED stats_vars
          /\ (d_pc = "root" /\ d_pc' \in {"root", "first"})
             => UNCHANGED stats_vars
          /\ (d_pc \in {"first", "second"} /\ d_pc' = "root")
             => /\ prompts_done = prompts_in_round
                /\ prompts_done \in 5..7
          /\ (d_pc \in {"first", "second"} /\ d_pc' = "first" /\ p_pc' # p_pc
                 /\ p_pc = "returned")
             => /\ prompts_done' = prompts_done + 1
                /\ root_note' = root_note
          /\ (d_pc' = "second" /\ d_pc # "second")
             => /\ d_pc = "first"
                /\ p_result = Some(FALSE)
                /\ UNCHANGED <<prompts_done, root_note, d_expected_note>>]_vars
    /\ [](/\ (d_pc = "root" /\ p_pc = "returned" /\ p_result = Some(FALSE))
             => ENABLED DegreeRootDone
          /\ d_pc \in {"root", "first", "second"}
             => /\ prompts_in_round \in 5..7
                /\ prompts_done <= prompts_in_round
                /\ (d_pc = "root") = is_root
                /\ (d_pc = "root") = (prompts_done = 0))

C27_Witness ==
    /\ drill = "degree"
    /\ d_pc = "root"
    /\ p_pc = "listen1"
    /\ is_root
    /\ prompts_done = 0
    /\ prompts_in_round = 7
    /\ correct = 3
    /\ incorrect = 4
    /\ total_attempts = 7
=============================================================================
